---- MODULE Spec2Model ----
(***************************************************************************)
(* Model of the LinkedIn automation service (src/server.js, and the older  *)
(* non-category-aware variant of it, src/unnamed/part_000).                *)
(*                                                                         *)
(* Text is modelled as a sequence of one-character strings, indices of     *)
(* the JavaScript string methods are kept 0-based as in the source.        *)
(***************************************************************************)
EXTENDS Integers, Sequences, FiniteSets, TLC

VARIABLES
    rawContent,     \* parseClaudeResponse: its argument
    parsed,         \* parseClaudeResponse: its outcome, NotCalled before the call
    content,        \* splitContentBySubheadings: the article body
    subheadings,    \* splitContentBySubheadings: the six subheading fields
    split,          \* splitContentBySubheadings: its outcome, NotCalled before
    origin,         \* how rawContent was put together (history, read by no code)
    resInput,       \* category resolution: the category field of the request
    resDirectory,   \* category resolution: what the CMS lists
    resNames,       \* the names resInput was made of (history, read by no code)
    resolved,       \* category resolution: its outcome, not called before
    pc,             \* per request: the await its handler is suspended at
    endpoint,       \* per request: the route that received it
    reqBody,        \* per request: req.body
    locals,         \* per request: the local variables of the suspended handler
    issued,         \* per request: the external calls issued so far (history)
    returned,       \* per request: the calls that came back, and how (history)
    steps,          \* per request: the pipeline steps passed so far (history)
    responses,      \* per request: the responses sent on res
    posted,         \* per request: the records posted to the CMS
    alive,          \* the process has not died of an unhandled rejection
    tracing,        \* whether trace is kept in this behaviour (never changes)
    trace           \* per request: its route, its body and the answers its
                    \* external calls came back with (history, read by no code)

vars == <<rawContent, parsed, content, subheadings, split, origin, resInput,
          resDirectory, resNames, resolved, pc, endpoint, reqBody, locals, issued,
          returned, steps, responses, posted, alive, tracing, trace>>

----------------------------------------------------------------------------
(* Characters and JavaScript string primitives                             *)

Q == "\""
NL == "\n"
BSL == "\\"
\* the grave accent (the lexer of the tools rejects it inside a string, so the
\* character is written as an atom)
TICK == "<backtick>"

Min(a, b) == IF a < b THEN a ELSE b
Max(a, b) == IF a > b THEN a ELSE b

\* /\s/ restricted to the whitespace characters of the model's alphabet
IsWs(c) == c \in {" ", "\n", "\t", "\r"}

Digits == {"0", "1", "2", "3", "4", "5", "6", "7", "8", "9"}

\* does pat occur in s at 0-based index i
MatchAt(s, pat, i) ==
    /\ i >= 0
    /\ i + Len(pat) <= Len(s)
    /\ \A k \in 1..Len(pat) : s[i + k] = pat[k]

\* String.prototype.indexOf(pat): the least 0-based index of pat, -1 if none
IndexOf(s, pat) ==
    LET hits == {i \in 0..Len(s) : MatchAt(s, pat, i)}
    IN  IF hits = {} THEN -1 ELSE CHOOSE i \in hits : \A j \in hits : i <= j

\* String.prototype.lastIndexOf(pat, from): the greatest index <= from
\* (a negative from counts as 0), -1 if none
LastIndexOf(s, pat, from) ==
    LET hits == {i \in 0..Min(Max(from, 0), Len(s)) : MatchAt(s, pat, i)}
    IN  IF hits = {} THEN -1 ELSE CHOOSE i \in hits : \A j \in hits : i >= j

\* String.prototype.substring(a, b): arguments clamped to 0..length and swapped
\* when a > b
Substring(s, a, b) ==
    LET ca == Min(Max(a, 0), Len(s))
        cb == Min(Max(b, 0), Len(s))
    IN  SubSeq(s, Min(ca, cb) + 1, Max(ca, cb))

\* String.prototype.trim()
RECURSIVE TrimLeft(_)
TrimLeft(s) == IF s # <<>> /\ IsWs(Head(s)) THEN TrimLeft(Tail(s)) ELSE s

RECURSIVE TrimRight(_)
TrimRight(s) ==
    IF s # <<>> /\ IsWs(s[Len(s)]) THEN TrimRight(SubSeq(s, 1, Len(s) - 1)) ELSE s

Trim(s) == TrimRight(TrimLeft(s))

\* the 1-based position of the first non-whitespace character at or after i
RECURSIVE SkipWs(_, _)
SkipWs(s, i) == IF i <= Len(s) /\ IsWs(s[i]) THEN SkipWs(s, i + 1) ELSE i

\* s.replace(/<marker>\s*/g, ""): every occurrence of marker, followed by any
\* run of whitespace, is deleted, scanning left to right
RECURSIVE ReplaceAllWithWs(_, _, _)
ReplaceAllWithWs(s, marker, i) ==
    IF i > Len(s) THEN <<>>
    ELSE IF MatchAt(s, marker, i - 1)
         THEN ReplaceAllWithWs(s, marker, SkipWs(s, i + Len(marker)))
         ELSE <<s[i]>> \o ReplaceAllWithWs(s, marker, i + 1)

Fence == <<TICK, TICK, TICK>>
FenceJson == Fence \o <<"j", "s", "o", "n">>

----------------------------------------------------------------------------
(* JavaScript values and JSON.parse                                        *)

\* A JavaScript value: t is its type tag, s the characters of a string, n a
\* number (or 0/1 for a boolean), m the members of an object in insertion
\* order (or the elements of an array, with empty keys).
Undefined == [t |-> "undefined", s |-> <<>>, n |-> 0, m |-> <<>>]
JNull == [t |-> "null", s |-> <<>>, n |-> 0, m |-> <<>>]
JStr(str) == [t |-> "string", s |-> str, n |-> 0, m |-> <<>>]
JNum(k) == [t |-> "number", s |-> <<>>, n |-> k, m |-> <<>>]
JBool(b) == [t |-> "boolean", s |-> <<>>, n |-> IF b THEN 1 ELSE 0, m |-> <<>>]
JObj(members) == [t |-> "object", s |-> <<>>, n |-> 0, m |-> members]
JArr(elems) == [t |-> "array", s |-> <<>>, n |-> 0, m |-> elems]

\* obj.key: the member named key, undefined when there is none (and for a
\* number, string or boolean, which have no such own property)
Get(v, key) ==
    LET hits == {i \in 1..Len(v.m) : v.m[i].k = key}
    IN  IF v.t = "object" /\ hits # {}
        THEN v.m[CHOOSE i \in hits : TRUE].v
        ELSE Undefined

\* property assignment while parsing: a repeated key keeps its place and takes
\* the later value
PutMember(members, key, val) ==
    IF \E i \in 1..Len(members) : members[i].k = key
    THEN [i \in 1..Len(members) |->
            IF members[i].k = key THEN [k |-> key, v |-> val] ELSE members[i]]
    ELSE Append(members, [k |-> key, v |-> val])

ParseFail == [ok |-> FALSE, val |-> Undefined, next |-> 0]
ParseOk(v, nxt) == [ok |-> TRUE, val |-> v, next |-> nxt]

DigitVal(c) ==
    CASE c = "0" -> 0 [] c = "1" -> 1 [] c = "2" -> 2 [] c = "3" -> 3
      [] c = "4" -> 4 [] c = "5" -> 5 [] c = "6" -> 6 [] c = "7" -> 7
      [] c = "8" -> 8 [] c = "9" -> 9

\* the characters of a JSON string from position i (just after the opening
\* quote): an escape is decoded, a raw control character is a syntax error
RECURSIVE ParseStringBody(_, _, _)
ParseStringBody(s, i, acc) ==
    IF i > Len(s) THEN ParseFail
    ELSE IF s[i] = Q THEN ParseOk(JStr(acc), i + 1)
    ELSE IF s[i] \in {"\n", "\t", "\r"} THEN ParseFail
    ELSE IF s[i] = BSL
         THEN IF i + 1 > Len(s) THEN ParseFail
              ELSE IF s[i + 1] \in {Q, BSL, "/"}
                   THEN ParseStringBody(s, i + 2, Append(acc, s[i + 1]))
              ELSE IF s[i + 1] = "n" THEN ParseStringBody(s, i + 2, Append(acc, "\n"))
              ELSE IF s[i + 1] = "t" THEN ParseStringBody(s, i + 2, Append(acc, "\t"))
              ELSE IF s[i + 1] = "r" THEN ParseStringBody(s, i + 2, Append(acc, "\r"))
              ELSE ParseFail
    ELSE ParseStringBody(s, i + 1, Append(acc, s[i]))

\* a JSON integer from position i: 0, or a digit run without a leading zero
RECURSIVE ParseDigits(_, _, _)
ParseDigits(s, i, acc) ==
    IF i <= Len(s) /\ s[i] \in Digits
    THEN ParseDigits(s, i + 1, 10 * acc + DigitVal(s[i]))
    ELSE ParseOk(JNum(acc), i)

ParseNumber(s, i) ==
    IF s[i] = "0"
    THEN IF i + 1 <= Len(s) /\ s[i + 1] \in Digits THEN ParseFail
         ELSE ParseOk(JNum(0), i + 1)
    ELSE ParseDigits(s, i, 0)

RECURSIVE ParseValue(_, _)
RECURSIVE ParseMembers(_, _, _)
RECURSIVE ParseElements(_, _, _)

\* the members of an object from position i (after the brace or a comma)
ParseMembers(s, i, acc) ==
    LET k0 == SkipWs(s, i)
    IN  IF k0 > Len(s) \/ s[k0] # Q THEN ParseFail
        ELSE LET key == ParseStringBody(s, k0 + 1, <<>>)
             IN  IF ~key.ok THEN ParseFail
                 ELSE LET c == SkipWs(s, key.next)
                      IN  IF c > Len(s) \/ s[c] # ":" THEN ParseFail
                          ELSE LET val == ParseValue(s, c + 1)
                               IN  IF ~val.ok THEN ParseFail
                                   ELSE LET e == SkipWs(s, val.next)
                                            mem == PutMember(acc, key.val.s, val.val)
                                        IN  IF e > Len(s) THEN ParseFail
                                            ELSE IF s[e] = "}" THEN ParseOk(JObj(mem), e + 1)
                                            ELSE IF s[e] = "," THEN ParseMembers(s, e + 1, mem)
                                            ELSE ParseFail

\* the elements of an array from position i (after the bracket or a comma)
ParseElements(s, i, acc) ==
    LET val == ParseValue(s, i)
    IN  IF ~val.ok THEN ParseFail
        ELSE LET e == SkipWs(s, val.next)
                 elems == Append(acc, [k |-> <<>>, v |-> val.val])
             IN  IF e > Len(s) THEN ParseFail
                 ELSE IF s[e] = "]" THEN ParseOk(JArr(elems), e + 1)
                 ELSE IF s[e] = "," THEN ParseElements(s, e + 1, elems)
                 ELSE ParseFail

\* one JSON value starting at or after position i
ParseValue(s, i) ==
    LET p == SkipWs(s, i)
    IN  IF p > Len(s) THEN ParseFail
        ELSE IF s[p] = Q THEN ParseStringBody(s, p + 1, <<>>)
        ELSE IF s[p] \in Digits THEN ParseNumber(s, p)
        ELSE IF MatchAt(s, <<"n", "u", "l", "l">>, p - 1) THEN ParseOk(JNull, p + 4)
        ELSE IF MatchAt(s, <<"t", "r", "u", "e">>, p - 1) THEN ParseOk(JBool(TRUE), p + 4)
        ELSE IF MatchAt(s, <<"f", "a", "l", "s", "e">>, p - 1)
             THEN ParseOk(JBool(FALSE), p + 5)
        ELSE IF s[p] = "{"
             THEN LET q == SkipWs(s, p + 1)
                  IN  IF q <= Len(s) /\ s[q] = "}" THEN ParseOk(JObj(<<>>), q + 1)
                      ELSE ParseMembers(s, p + 1, <<>>)
        ELSE IF s[p] = "["
             THEN LET q == SkipWs(s, p + 1)
                  IN  IF q <= Len(s) /\ s[q] = "]" THEN ParseOk(JArr(<<>>), q + 1)
                      ELSE ParseElements(s, p + 1, <<>>)
        ELSE ParseFail

\* JSON.parse(s): ok is FALSE where JSON.parse throws a SyntaxError
JSONParse(s) ==
    LET r == ParseValue(s, 1)
    IN  IF r.ok /\ SkipWs(s, r.next) = Len(s) + 1
        THEN [ok |-> TRUE, val |-> r.val]
        ELSE [ok |-> FALSE, val |-> Undefined]

----------------------------------------------------------------------------
(* parseClaudeResponse                                                     *)

KeyArticleBody == <<"a", "r", "t", "i", "c", "l", "e", "B", "o", "d", "y">>
KeyLinkedinSnippet ==
    <<"l", "i", "n", "k", "e", "d", "i", "n", "S", "n", "i", "p", "p", "e", "t">>

\* the search strings of the third attempt: the quoted field name, a colon,
\* ONE space and the opening quote of the value
MarkerArticleBody == <<Q>> \o KeyArticleBody \o <<Q, ":", " ", Q>>
MarkerLinkedinSnippet == <<Q>> \o KeyLinkedinSnippet \o <<Q, ":", " ", Q>>

\* the literal pieces of the regular expression of the fourth attempt
ReArticleBody == <<Q>> \o KeyArticleBody \o <<Q, ":">>
ReLinkedinSnippet == <<Q>> \o KeyLinkedinSnippet \o <<Q, ":">>

\* 0-based helpers for the regular expression
SkipWs0(s, i) == SkipWs(s, i + 1) - 1
CharAt(s, i) == IF i >= 0 /\ i < Len(s) THEN s[i + 1] ELSE ""

\* the record built by the third and fourth attempts
Reconstructed(articleBody, linkedinSnippet) ==
    JObj(<<[k |-> KeyArticleBody, v |-> JStr(articleBody)],
           [k |-> KeyLinkedinSnippet, v |-> JStr(linkedinSnippet)]>>)

\* "([\s\S]*?)"\s*} from g2: the index of the first quote at or after g2 that
\* is followed by optional whitespace and a closing brace, -1 if none
ReGroup2End(s, g2) ==
    LET hits == {e \in g2..Len(s) :
                    CharAt(s, e) = Q /\ CharAt(s, SkipWs0(s, e + 1)) = "}"}
    IN  IF hits = {} THEN -1 ELSE CHOOSE e \in hits : \A f \in hits : e <= f

\* ",\s*"linkedinSnippet":\s*" at e1: the index where the second group
\* starts, -1 if the text at e1 does not match
ReGroup2Start(s, e1) ==
    IF ~MatchAt(s, <<Q, ",">>, e1) THEN -1
    ELSE LET a == SkipWs0(s, e1 + 2)
         IN  IF ~MatchAt(s, ReLinkedinSnippet, a) THEN -1
             ELSE LET b == SkipWs0(s, a + Len(ReLinkedinSnippet))
                  IN  IF CharAt(s, b) = Q THEN b + 1 ELSE -1

\* can the rest of the expression match when the first group ends at e1
ReTailMatches(s, e1) ==
    /\ ReGroup2Start(s, e1) # -1
    /\ ReGroup2End(s, ReGroup2Start(s, e1)) # -1

\* "articleBody":\s*" at p: the index where the first group starts, -1 if the
\* text at p does not match
ReGroup1Start(s, p) ==
    IF ~MatchAt(s, ReArticleBody, p) THEN -1
    ELSE LET a == SkipWs0(s, p + Len(ReArticleBody))
         IN  IF CharAt(s, a) = Q THEN a + 1 ELSE -1

\* jsonOnly.match(/"articleBody":\s*"([\s\S]*?)",\s*"linkedinSnippet":\s*"([\s\S]*?)"\s*}/):
\* the leftmost match, each lazy group as short as the rest allows
ArticleMatch(s) ==
    LET starts == {p \in 0..Len(s) :
                      /\ ReGroup1Start(s, p) # -1
                      /\ \E e1 \in ReGroup1Start(s, p)..Len(s) : ReTailMatches(s, e1)}
    IN  IF starts = {} THEN [found |-> FALSE, g1 |-> <<>>, g2 |-> <<>>]
        ELSE LET p == CHOOSE x \in starts : \A y \in starts : x <= y
                 g1 == ReGroup1Start(s, p)
                 ends == {e \in g1..Len(s) : ReTailMatches(s, e)}
                 e1 == CHOOSE x \in ends : \A y \in ends : x <= y
                 g2 == ReGroup2Start(s, e1)
             IN  [found |-> TRUE,
                  g1 |-> Substring(s, g1, e1),
                  g2 |-> Substring(s, g2, ReGroup2End(s, g2))]

\* the text after the code-fence markers are removed and the ends trimmed
StripFences(raw) ==
    Trim(ReplaceAllWithWs(ReplaceAllWithWs(raw, FenceJson, 1), Fence, 1))

Returned(v, attempt) == [threw |-> FALSE, val |-> v, step |-> attempt, msg |-> ""]
Threw(message) == [threw |-> TRUE, val |-> Undefined, step |-> 0, msg |-> message]

\* third attempt: the two values are cut out of jsonOnly by position
ThirdAttempt(jsonOnly) ==
    LET articleBodyStart == IndexOf(jsonOnly, MarkerArticleBody) + Len(MarkerArticleBody)
        linkedinStart ==
            IndexOf(jsonOnly, MarkerLinkedinSnippet) + Len(MarkerLinkedinSnippet)
        articleBodyEnd ==
            LastIndexOf(jsonOnly, <<Q, ",">>, linkedinStart - Len(MarkerLinkedinSnippet))
        linkedinEnd == LastIndexOf(jsonOnly, <<Q>>, Len(jsonOnly) - 2)
    IN  IF /\ articleBodyStart > 0
           /\ articleBodyEnd > articleBodyStart
           /\ linkedinStart > 0
           /\ linkedinEnd > linkedinStart
        THEN [found |-> TRUE,
              g1 |-> Substring(jsonOnly, articleBodyStart, articleBodyEnd),
              g2 |-> Substring(jsonOnly, linkedinStart, linkedinEnd)]
        ELSE [found |-> FALSE, g1 |-> <<>>, g2 |-> <<>>]

parseClaudeResponse(raw) ==
    LET text == StripFences(raw)
        direct == JSONParse(text)
        jsonStart == IndexOf(text, <<"{">>)
        jsonEnd == LastIndexOf(text, <<"}">>, Len(text)) + 1
        jsonOnly == Substring(text, jsonStart, jsonEnd)
        bounded == JSONParse(jsonOnly)
        third == ThirdAttempt(jsonOnly)
        fourth == ArticleMatch(jsonOnly)
    IN  IF direct.ok THEN Returned(direct.val, 1)
        ELSE IF jsonStart # -1 /\ jsonEnd > jsonStart
             THEN IF bounded.ok THEN Returned(bounded.val, 2)
                  ELSE IF third.found THEN Returned(Reconstructed(third.g1, third.g2), 3)
                  ELSE IF fourth.found
                       THEN Returned(Reconstructed(fourth.g1, fourth.g2), 4)
                  ELSE Threw("Unable to parse Claude response after multiple attempts")
             ELSE Threw("No valid JSON found in Claude response")

----------------------------------------------------------------------------
(* splitContentBySubheadings                                               *)

UpperLetters ==
    <<"A", "B", "C", "D", "E", "F", "G", "H", "I", "J", "K", "L", "M", 
      "N", "O", "P", "Q", "R", "S", "T", "U", "V", "W", "X", "Y", "Z">>
LowerLetters ==
    <<"a", "b", "c", "d", "e", "f", "g", "h", "i", "j", "k", "l", "m", 
      "n", "o", "p", "q", "r", "s", "t", "u", "v", "w", "x", "y", "z">>

\* String.prototype.toLowerCase() on one character
Lower(c) ==
    IF \E k \in 1..26 : UpperLetters[k] = c
    THEN LowerLetters[CHOOSE k \in 1..26 : UpperLetters[k] = c]
    ELSE c

\* String.prototype.toLowerCase()
ToLowerCase(str) == [k \in 1..Len(str) |-> Lower(str[k])]

\* one pattern character against one text character under the "i" flag: a
\* dot matches any character but a line terminator, any other character of
\* the alphabet matches itself in either case
ReCharMatches(pch, c) ==
    IF pch = "." THEN c \notin {"\n", "\r"} ELSE Lower(pch) = Lower(c)

\* does the pattern match the text at 0-based index i
ReMatchAt(text, pattern, i) ==
    /\ i + Len(pattern) <= Len(text)
    /\ \A k \in 1..Len(pattern) : ReCharMatches(pattern[k], text[i + k])

\* new RegExp(source, "i") throws a SyntaxError for an unterminated group; the
\* alphabet holds no closing parenthesis, so every opening one is unterminated
RegExpThrows(source) == \E k \in 1..Len(source) : source[k] = "("

\* content.search(pattern): the index of the leftmost match, -1 if none
Search(text, pattern) ==
    LET hits == {i \in 0..Len(text) : ReMatchAt(text, pattern, i)}
    IN  IF hits = {} THEN -1 ELSE CHOOSE i \in hits : \A j \in hits : i <= j

\* sh && sh.trim(): the subheading is a non-blank string
IsValidSubheading(sh) == sh.t = "string" /\ Trim(sh.s) # <<>>

\* subheadings.filter(sh => sh && sh.trim())
RECURSIVE FilterValid(_)
FilterValid(shs) ==
    IF shs = <<>> THEN <<>>
    ELSE IF IsValidSubheading(Head(shs))
         THEN <<Head(shs)>> \o FilterValid(Tail(shs))
         ELSE FilterValid(Tail(shs))

\* the text a template literal renders for ${value}
TemplateText(v) ==
    IF v.t = "string" THEN v.s
    ELSE <<"u", "n", "d", "e", "f", "i", "n", "e", "d">>

SplitReturned(first, second) ==
    [threw |-> FALSE, called |-> TRUE, firstPart |-> first, secondPart |-> second]
SplitThrew == [threw |-> TRUE, called |-> TRUE, firstPart |-> <<>>, secondPart |-> <<>>]
SplitNotCalled ==
    [threw |-> FALSE, called |-> FALSE, firstPart |-> <<>>, secondPart |-> <<>>]


\* the cut with the character at the split index left out of both parts (a
\* variant the no-loss property has to exclude)
SplitAtDropping(text, at) ==
    SplitReturned(Substring(text, 0, at), Substring(text, at + 1, Len(text)))

\* the two parts cut at index at
SplitAt(text, at) == SplitReturned(Substring(text, 0, at), Substring(text, at, Len(text)))

\* body is a JavaScript value (content.search throws a TypeError on undefined),
\* shs the six subheading fields as JavaScript values
splitContentBySubheadings(body, shs) ==
    LET validSubheadings == FilterValid(shs)
        thirdSubheading ==
            IF Len(validSubheadings) >= 3 THEN validSubheadings[3] ELSE Undefined
        source == <<"#", "#", " ">> \o TemplateText(thirdSubheading)
        splitMatch == Search(body.s, source)
        halfPoint == Len(body.s) \div 2
    IN  IF RegExpThrows(source) \/ body.t # "string" THEN SplitThrew
        ELSE IF splitMatch # -1 THEN SplitAt(body.s, splitMatch)
        ELSE SplitAt(body.s, halfPoint)

----------------------------------------------------------------------------
(* Helpers of the request handlers                                         *)

\* the truthiness of a JavaScript value
Truthy(v) ==
    CASE v.t = "undefined" -> FALSE
      [] v.t = "null" -> FALSE
      [] v.t = "string" -> v.s # <<>>
      [] v.t = "number" -> v.n # 0
      [] v.t = "boolean" -> v.n = 1
      [] OTHER -> TRUE

\* str.split(","): the pieces between the commas
RECURSIVE SplitComma(_, _)
SplitComma(str, acc) ==
    IF str = <<>> THEN <<acc>>
    ELSE IF Head(str) = "," THEN <<acc>> \o SplitComma(Tail(str), <<>>)
    ELSE SplitComma(Tail(str), Append(acc, Head(str)))

RECURSIVE TrimNonEmpty(_)
TrimNonEmpty(pieces) ==
    IF pieces = <<>> THEN <<>>
    ELSE IF Trim(Head(pieces)) # <<>>
         THEN <<JStr(Trim(Head(pieces)))>> \o TrimNonEmpty(Tail(pieces))
         ELSE TrimNonEmpty(Tail(pieces))

\* parseCategories: list is the array returned; threw is TRUE where
\* categoryInput.split is not a function (a truthy value that is neither an
\* array nor a string)
parseCategories(categoryInput) ==
    IF ~Truthy(categoryInput) THEN [threw |-> FALSE, list |-> <<>>]
    ELSE IF categoryInput.t = "array"
         THEN [threw |-> FALSE,
               list |-> [k \in 1..Len(categoryInput.m) |-> categoryInput.m[k].v]]
    ELSE IF categoryInput.t = "string"
         THEN [threw |-> FALSE, list |-> TrimNonEmpty(SplitComma(categoryInput.s, <<>>))]
    ELSE [threw |-> TRUE, list |-> <<>>]

\* getStrapiCategories falling back on a built-in directory when the request
\* failed (a variant the handling of a failed fetch has to exclude)
getStrapiCategoriesDefaulting(answer) ==
    IF answer.ok THEN answer.data
    ELSE <<[id |-> 1, name |-> <<"m", "a", "r", "k", "e", "t", "i", "n", "g">>]>>

\* getStrapiCategories: the directory listed by the answer, the empty list
\* when the request failed
getStrapiCategories(answer) == IF answer.ok THEN answer.data ELSE <<>>

\* the lookup comparing the names as they are written (a variant the
\* case-insensitive matching has to exclude)
FindCategoryExactCase(strapiCategories, categoryName) ==
    LET hits == {k \in 1..Len(strapiCategories) :
                    strapiCategories[k].name = categoryName.s}
    IN  IF hits = {} THEN 0 ELSE CHOOSE k \in hits : \A j \in hits : k <= j

\* strapiCategories.find(cat => cat.attributes.name.toLowerCase() ===
\* categoryName.toLowerCase()): the index of the first such entry, 0 if none
FindCategory(strapiCategories, categoryName) ==
    LET hits == {k \in 1..Len(strapiCategories) :
                    ToLowerCase(strapiCategories[k].name) = ToLowerCase(categoryName.s)}
    IN  IF hits = {} THEN 0 ELSE CHOOSE k \in hits : \A j \in hits : k <= j

RECURSIVE CollectIds(_, _)
CollectIds(strapiCategories, categoryNames) ==
    IF categoryNames = <<>> THEN <<>>
    ELSE LET k == FindCategory(strapiCategories, Head(categoryNames))
         IN  (IF k = 0 THEN <<>> ELSE <<strapiCategories[k].id>>)
                 \o CollectIds(strapiCategories, Tail(categoryNames))

\* findCategoryIds after the directory arrived: threw is TRUE where
\* categoryName.toLowerCase is not a function (the callback runs only when the
\* directory holds an entry)
findCategoryIds(categoryNames, strapiCategories) ==
    IF /\ strapiCategories # <<>>
       /\ \E k \in 1..Len(categoryNames) : categoryNames[k].t # "string"
    THEN [threw |-> TRUE, ids |-> <<>>]
    ELSE [threw |-> FALSE, ids |-> CollectIds(strapiCategories, categoryNames)]

\* the keys of CONTENT_PROMPTS
FunnelTypes == {<<"T", "O", "F">>, <<"M", "O", "F">>, <<"E", "O", "F">>}

\* building the prompt reads CONTENT_PROMPTS[funnelType].wordCount, a
\* TypeError for a funnel type that is no key of the table
PromptThrows(funnelType) == ~(funnelType.t = "string" /\ funnelType.s \in FunnelTypes)

\* str.split(/\s+/).length: one more than the number of whitespace runs
RECURSIVE WsRuns(_, _)
WsRuns(str, inRun) ==
    IF str = <<>> THEN 0
    ELSE IF IsWs(Head(str))
         THEN (IF inRun THEN 0 ELSE 1) + WsRuns(Tail(str), TRUE)
         ELSE WsRuns(Tail(str), FALSE)

SplitWsLength(str) == WsRuns(str, FALSE) + 1

\* new Date().toISOString(), the value of the clock is not modelled
Now == JStr(<<"n", "o", "w">>)


\* createStrapiArticle with the record published at once (a variant the
\* draft-only property has to exclude)
StrapiDataPublished(headline, summary, articleBody, bodyImageText, categoryIds, linkedinSnippet) ==
    [title |-> headline, headline |-> headline, summary |-> summary,
     body |-> articleBody, bodyImageText |-> bodyImageText,
     linkedInSummary |-> linkedinSnippet, categories |-> categoryIds,
     publishDate |-> Now, publishedAt |-> Now]

\* the record createStrapiArticle posts (src/server.js)
StrapiData(headline, summary, articleBody, bodyImageText, categoryIds, linkedinSnippet) ==
    [title |-> headline, headline |-> headline, summary |-> summary,
     body |-> articleBody, bodyImageText |-> bodyImageText,
     linkedInSummary |-> linkedinSnippet, categories |-> categoryIds,
     publishDate |-> Now, publishedAt |-> JNull]

\* the record the older createStrapiArticle posts (src/unnamed/part_000)
StrapiDataV1(headline, summary, articleBody) ==
    [title |-> headline, headline |-> headline, summary |-> summary,
     body |-> articleBody, bodyImageText |-> Undefined,
     linkedInSummary |-> Undefined, categories |-> <<>>,
     publishDate |-> Now, publishedAt |-> JNull]

\* (a record without a categories key is written with the empty list)
\* the record GET /api/debug-strapi posts (its texts are shortened)
TestArticle ==
    [title |-> JStr(<<"T">>), headline |-> JStr(<<"T">>), summary |-> JStr(<<"t">>),
     body |-> JStr(<<"#", "#", " ", "T">>), bodyImageText |-> JStr(<<"#", "#", " ", "M">>),
     linkedInSummary |-> JStr(<<"l">>), categories |-> <<>>,
     publishDate |-> Now, publishedAt |-> JNull]

----------------------------------------------------------------------------
(* The request handlers, each cut at its awaits. A piece maps what the      *)
(* handler holds when it resumes to an outcome: where it suspends next      *)
(* (or "done"), the response it sends, the external call it issues, the     *)
(* record it posts, the pipeline steps it passed.                           *)

NoLocals ==
    [categories |-> <<>>, categoryIds |-> <<>>, validCount |-> 0,
     firstPart |-> <<>>, secondPart |-> <<>>, linkedinSnippet |-> Undefined]

NoError == [msg |-> "", detail |-> ""]
NoData ==
    [strapiId |-> Undefined, linkedinSnippet |-> Undefined, bodyWordCount |-> -1,
     bodyImageTextWordCount |-> -1, categoriesConnected |-> -1, subheadingsUsed |-> -1]

\* res.status(code).json({ success: false, error }), the handler returns
Fail(code, message, detail, passed) ==
    [next |-> "done",
     response |-> <<[status |-> code, success |-> FALSE,
                     error |-> [msg |-> message, detail |-> detail], data |-> NoData]>>,
     call |-> <<>>, post |-> <<>>, passed |-> passed, locals |-> NoLocals,
     crash |-> FALSE]


\* a handler without its catch block: the rejection is unhandled, no response
\* is sent and the process dies (a variant the isolation property has to
\* exclude)
CaughtNowhere(message, detail, passed) ==
    [next |-> "done", response |-> <<>>, call |-> <<>>, post |-> <<>>,
     passed |-> passed, locals |-> NoLocals, crash |-> TRUE]

\* the catch block of a handler: the error becomes a 500 response
Caught(message, detail, passed) == Fail(500, message, detail, passed)

\* res.json({ success: true, data }), the handler returns
Succeed(data, passed) ==
    [next |-> "done",
     response |-> <<[status |-> 200, success |-> TRUE, error |-> NoError, data |-> data]>>,
     call |-> <<>>, post |-> <<>>, passed |-> passed, locals |-> NoLocals,
     crash |-> FALSE]

\* the handler issues the external call op and suspends at its await
Await(op, post, passed, loc) ==
    [next |-> op, response |-> <<>>, call |-> <<op>>, post |-> post,
     passed |-> passed, locals |-> loc, crash |-> FALSE]

\* the required-field check of POST /api/generate and POST /webhook
HasRequiredFields(body) ==
    /\ Truthy(body.headline)
    /\ Truthy(body.summary)
    /\ Truthy(body.category)
    /\ Truthy(body.funnelType)

\* the required-field check of the older POST /api/generate
HasRequiredFieldsV1(body) == HasRequiredFields(body) /\ Truthy(body.author)

\* POST /api/generate and POST /webhook from the start to the await in
\* findCategoryIds
OnRequest(body) ==
    IF ~HasRequiredFields(body)
    THEN Fail(400, "Missing required fields: headline, summary, category, funnelType",
              "", <<>>)
    ELSE LET categories == parseCategories(body.category)
         IN  IF categories.threw
             THEN Caught("TypeError", "categoryInput.split is not a function", <<>>)
             ELSE Await("categories", <<>>, <<"validated">>,
                        [NoLocals EXCEPT !.categories = categories.list])


\* the handler with the subheading check moved in front of the category
\* resolution and the directory consulted only afterwards, so that the LLM
\* call is issued while the categories are still unresolved (a variant the
\* validation property has to exclude)
OnCategoriesLate(body, loc, answer) ==
    LET found == findCategoryIds(loc.categories, getStrapiCategories(answer))
        validSubheadings == FilterValid(body.subheadings)
    IN  IF found.threw
        THEN Caught("TypeError", "categoryName.toLowerCase is not a function", <<>>)
        ELSE IF Len(validSubheadings) < 4
        THEN Fail(400, "At least 4 subheadings are required (subheading1-4 minimum)",
                  "", <<"resolved">>)
        ELSE IF Len(found.ids) = 0
        THEN [Fail(400, "No matching categories found in Strapi for: ", "", <<>>)
                 EXCEPT !.call = <<"claude">>]
        ELSE Await("claude", <<>>, <<"resolved", "subheadings">>,
                   [loc EXCEPT !.categoryIds = found.ids,
                               !.validCount = Len(validSubheadings)])

\* from the answer of the category directory to the await in generateContent
OnCategories(body, loc, answer) ==
    LET found == findCategoryIds(loc.categories, getStrapiCategories(answer))
        validSubheadings == FilterValid(body.subheadings)
    IN  IF found.threw
        THEN Caught("TypeError", "categoryName.toLowerCase is not a function", <<>>)
        ELSE IF Len(found.ids) = 0
        THEN Fail(400, "No matching categories found in Strapi for: ", "", <<>>)
        ELSE IF Len(validSubheadings) < 4
        THEN Fail(400, "At least 4 subheadings are required (subheading1-4 minimum)",
                  "", <<"resolved">>)
        ELSE IF PromptThrows(body.funnelType)
        THEN Caught("TypeError", "Cannot read properties of undefined",
                    <<"resolved", "subheadings">>)
        ELSE Await("claude", <<>>, <<"resolved", "subheadings">>,
                   [loc EXCEPT !.categoryIds = found.ids,
                               !.validCount = Len(validSubheadings)])


\* the handler calling the LLM again when the call failed (a variant the
\* no-retry property has to exclude)
OnClaudeRetrying(body, loc, answer) ==
    IF ~answer.ok
    THEN Await("claude", <<>>, <<>>, loc)
    ELSE Caught("Claude API failed: ", "not modelled", <<"generated">>)

\* the handler once splitContentBySubheadings has been called: the await in
\* createStrapiArticle
OnSplit(body, loc, generatedContent, parts) ==
    IF parts.threw
    THEN Caught("TypeError", "splitContentBySubheadings", <<"generated", "normalized">>)
    ELSE Await("strapi",
               <<StrapiData(body.headline, body.summary, JStr(parts.firstPart),
                            JStr(parts.secondPart), loc.categoryIds,
                            Get(generatedContent, KeyLinkedinSnippet))>>,
               <<"generated", "normalized", "partitioned">>,
               [loc EXCEPT !.firstPart = parts.firstPart,
                           !.secondPart = parts.secondPart,
                           !.linkedinSnippet = Get(generatedContent, KeyLinkedinSnippet)])

\* the handler once parseClaudeResponse has been called, result being what it
\* returned or threw
OnGenerated(body, loc, result) ==
    IF result.threw
    THEN Caught("Claude API failed: ", result.msg, <<"generated">>)
    ELSE IF result.val.t = "null"
    THEN Caught("TypeError", "Cannot read properties of null",
                <<"generated", "normalized">>)
    ELSE OnSplit(body, loc, result.val,
                 splitContentBySubheadings(Get(result.val, KeyArticleBody),
                                           body.subheadings))

\* from the answer of the LLM to the await in createStrapiArticle
OnClaude(body, loc, answer) ==
    IF ~answer.ok
    THEN Caught("Claude API failed: ", answer.status, <<>>)
    ELSE OnGenerated(body, loc, parseClaudeResponse(answer.text))

\* the data of the success response of POST /api/generate and POST /webhook
SuccessData(loc, strapiArticleId) ==
    [strapiId |-> strapiArticleId, linkedinSnippet |-> loc.linkedinSnippet,
     bodyWordCount |-> SplitWsLength(loc.firstPart),
     bodyImageTextWordCount |-> SplitWsLength(loc.secondPart),
     categoriesConnected |-> Len(loc.categoryIds),
     subheadingsUsed |-> loc.validCount]

\* from the answer of the CMS to the response
OnStrapi(loc, answer) ==
    IF ~answer.ok
    THEN Caught("Request failed with status code ", answer.status, <<>>)
    ELSE IF answer.id.t = "undefined"
    THEN Caught("TypeError", "Cannot read properties of undefined", <<"written">>)
    ELSE Succeed(SuccessData(loc, answer.id), <<"written">>)

\* the older POST /api/generate from the start to the await in generateContent
OnRequestV1(body) ==
    IF ~HasRequiredFieldsV1(body)
    THEN Fail(400,
              "Missing required fields: headline, summary, category, funnelType, author",
              "", <<>>)
    ELSE IF PromptThrows(body.funnelType)
    THEN Caught("TypeError", "Cannot read properties of undefined", <<"validated">>)
    ELSE Await("claude", <<>>, <<"validated">>, NoLocals)

\* the older handler once JSON.parse has been called on the text
OnParsedV1(body, loc, result) ==
    IF ~result.ok
    THEN Caught("Claude API failed: ", "Unexpected token", <<"generated">>)
    ELSE IF result.val.t = "null"
    THEN Caught("TypeError", "Cannot read properties of null",
                <<"generated", "normalized">>)
    ELSE Await("strapi",
               <<StrapiDataV1(body.headline, body.summary,
                              Get(result.val, KeyArticleBody))>>,
               <<"generated", "normalized">>,
               [loc EXCEPT !.linkedinSnippet = Get(result.val, KeyLinkedinSnippet)])

\* the older handler from the answer of the LLM to the await in
\* createStrapiArticle: the text is parsed by JSON.parse alone
OnClaudeV1(body, loc, answer) ==
    IF ~answer.ok
    THEN Caught("Claude API failed: ", answer.status, <<>>)
    ELSE OnParsedV1(body, loc, JSONParse(answer.text))

\* the older handler from the answer of the CMS to the response
OnStrapiV1(loc, answer) ==
    IF ~answer.ok
    THEN Caught("Request failed with status code ", answer.status, <<>>)
    ELSE IF answer.id.t = "undefined"
    THEN Caught("TypeError", "Cannot read properties of undefined", <<"written">>)
    ELSE Succeed([NoData EXCEPT !.strapiId = answer.id,
                                !.linkedinSnippet = loc.linkedinSnippet],
                 <<"written">>)

\* GET /api/debug-strapi: the test article is posted at once
OnRequestDebug == Await("strapi", <<TestArticle>>, <<>>, NoLocals)

\* GET /api/debug-strapi from the answer of the CMS to the response
OnStrapiDebug(answer) ==
    IF ~answer.ok
    THEN Caught("Request failed with status code ", answer.status, <<>>)
    ELSE Succeed(NoData, <<"written">>)

----------------------------------------------------------------------------
(* The requests and the answers of the collaborators the model draws from  *)

\* the number of requests in flight at once
NumReqs == 2
Reqs == 1..NumReqs

Endpoints == {"generate", "webhook", "generateV1", "debugStrapi"}

Str(text) == JStr(text)

\* subheading1..subheading6: the third non-blank one is the fourth field
SubheadingsOk ==
    <<Str(<<"A">>), Str(<<>>), Str(<<"C">>), Str(<<"B">>), Str(<<"D">>), Undefined>>
SubheadingsThree ==
    <<Str(<<"A">>), Str(<<"C">>), Str(<<"B">>), Str(<<" ">>), Str(<<>>), Undefined>>

BodyOk ==
    [headline |-> Str(<<"H">>), summary |-> Str(<<"S">>),
     category |-> Str(<<"M", "a", "r", "k", "e", "t", "i", "n", "g", ",", " ", "t", "e", "c", "h">>),
     funnelType |-> Str(<<"M", "O", "F">>), author |-> Str(<<"A", "n", "n">>),
     subheadings |-> SubheadingsOk]
BodyNoHeadline == [BodyOk EXCEPT !.headline = Undefined]
BodyNoAuthor == [BodyOk EXCEPT !.author = Undefined]
BodyUnknownCategory == [BodyOk EXCEPT !.category = Str(<<"O", "t", "h", "e", "r">>)]
\* the category given as an array, and three non-blank subheadings only
BodyThreeSubheadings ==
    [BodyOk EXCEPT !.category = JArr(<<[k |-> <<>>, v |-> Str(<<"T", "e", "c", "h">>)]>>),
                   !.subheadings = SubheadingsThree]
BodyCategoryNumber == [BodyOk EXCEPT !.category = JNum(7)]
BodyBadFunnel == [BodyOk EXCEPT !.funnelType = Str(<<"X">>)]
NoBody ==
    [headline |-> Undefined, summary |-> Undefined, category |-> Undefined,
     funnelType |-> Undefined, author |-> Undefined,
     subheadings |-> <<Undefined, Undefined, Undefined, Undefined, Undefined, Undefined>>]
\* no subheading field at all
BodyNoSubheadings == [BodyOk EXCEPT !.subheadings = NoBody.subheadings]

\* the request bodies drawn for a route
RequestBodies(ep) ==
    CASE ep \in {"generate", "webhook"} ->
            {BodyOk, BodyNoHeadline, BodyUnknownCategory, BodyThreeSubheadings,
             BodyCategoryNumber, BodyBadFunnel, BodyNoSubheadings}
      [] ep = "generateV1" -> {BodyOk, BodyNoAuthor, BodyNoHeadline, BodyBadFunnel}
      [] OTHER -> {NoBody}

\* the category directory of the CMS
Directory ==
    <<[id |-> 1, name |-> <<"m", "a", "r", "k", "e", "t", "i", "n", "g">>],
      [id |-> 2, name |-> <<"T", "e", "c", "h">>],
      [id |-> 3, name |-> <<"T", "e", "c", "h", "n", "o", "l", "o", "g", "y">>]>>

CategoryAnswers ==
    {[ok |-> FALSE, data |-> <<>>], [ok |-> TRUE, data |-> <<>>],
     [ok |-> TRUE, data |-> Directory]}

\* texts the LLM answers with
TextFenced ==
    <<TICK, TICK, TICK, "j", "s", "o", "n", NL, "{", Q, "a", "r", "t", "i",
      "c", "l", "e", "B", "o", "d", "y", Q, ":", " ", Q, "x", BSL, "n", BSL,
      "n", "#", "#", " ", "B", BSL, "n", BSL, "n", "y", " ", "z", Q, ",",
      " ", Q, "l", "i", "n", "k", "e", "d", "i", "n", "S", "n", "i", "p",
      "p", "e", "t", Q, ":", " ", Q, "h", "o", "o", "k", Q, "}", NL, TICK,
      TICK, TICK>>
TextLiteralNewlines ==
    <<"{", Q, "a", "r", "t", "i", "c", "l", "e", "B", "o", "d", "y", Q, ":",
      " ", Q, "p", " ", "q", NL, NL, "r", Q, ",", " ", Q, "l", "i", "n", "k",
      "e", "d", "i", "n", "S", "n", "i", "p", "p", "e", "t", Q, ":", " ", Q,
      "s", Q, "}">>
TextPartial ==
    <<"{", Q, "a", "r", "t", "i", "c", "l", "e", "B", "o", "d", "y", Q, ":",
      " ", Q, "#", "#", " ", "B", Q, "}">>
TextNumber == <<"5">>
TextNull == <<"n", "u", "l", "l">>
TextProse == <<"s", "o", "r", "r", "y">>

ClaudeTexts ==
    {TextFenced, TextLiteralNewlines, TextPartial, TextNumber, TextNull, TextProse}

ClaudeAnswers ==
    {[ok |-> FALSE, status |-> "529", text |-> <<>>]}
        \cup {[ok |-> TRUE, status |-> "200", text |-> t] : t \in ClaudeTexts}

StrapiAnswers ==
    {[ok |-> FALSE, status |-> "400", id |-> Undefined],
     [ok |-> TRUE, status |-> "200", id |-> JNum(41)],
     [ok |-> TRUE, status |-> "200", id |-> Undefined]}

----------------------------------------------------------------------------
(* The state machine of the service                                        *)

ParseNotCalled == [threw |-> FALSE, val |-> Undefined, step |-> -1, msg |-> ""]
NoOrigin ==
    [wrap |-> "none", kind |-> "none", inner |-> <<>>, body |-> <<>>, snippet |-> <<>>,
     ws1 |-> 0, ws2 |-> 0]

\* the outcome of the category resolution before it is called
ResolveNotCalled == [called |-> FALSE, threw |-> FALSE, ids |-> <<>>]

\* no category resolution on its own
ResolveIdle ==
    /\ resInput = Undefined
    /\ resDirectory = <<>>
    /\ resNames = <<>>
    /\ resolved = ResolveNotCalled

\* no call of parseClaudeResponse or splitContentBySubheadings on its own
ParseSplitIdle ==
    /\ rawContent = <<>>
    /\ parsed = ParseNotCalled
    /\ origin = NoOrigin
    /\ content = <<>>
    /\ subheadings = <<>>
    /\ split = SplitNotCalled

\* no function called on its own
FunctionsIdle == ParseSplitIdle /\ ResolveIdle

\* the history of a request that has not arrived
NoTrace == [ep |-> "none", body |-> NoBody, answers |-> <<>>]

\* no request received
NoRequest ==
    /\ pc = [r \in Reqs |-> "idle"]
    /\ endpoint = [r \in Reqs |-> "none"]
    /\ reqBody = [r \in Reqs |-> NoBody]
    /\ locals = [r \in Reqs |-> NoLocals]
    /\ issued = [r \in Reqs |-> <<>>]
    /\ returned = [r \in Reqs |-> <<>>]
    /\ steps = [r \in Reqs |-> <<>>]
    /\ responses = [r \in Reqs |-> <<>>]
    /\ posted = [r \in Reqs |-> <<>>]
    /\ alive = TRUE
    /\ trace = [r \in Reqs |-> NoTrace]

\* no request received, and no history of inputs kept
HandlersIdle == NoRequest /\ tracing = FALSE

Init == FunctionsIdle /\ HandlersIdle

\* the same service, with the inputs of every request remembered
InitTraced == FunctionsIdle /\ NoRequest /\ tracing = TRUE

resolveVars == <<resInput, resDirectory, resNames, resolved>>
functionVars ==
    <<rawContent, parsed, content, subheadings, split, origin, resInput, resDirectory,
      resNames, resolved>>
handlerVars ==
    <<pc, endpoint, reqBody, locals, issued, returned, steps, responses, posted, alive,
      tracing, trace>>

\* request r arrives on route ep with body: the history starts
Arrived(r, ep, body) ==
    /\ trace' = IF tracing
                THEN [trace EXCEPT ![r] = [ep |-> ep, body |-> body, answers |-> <<>>]]
                ELSE trace
    /\ UNCHANGED tracing

\* an external call of request r came back with answer: the history grows
Answered(r, op, answer) ==
    /\ trace' = IF tracing
                THEN [trace EXCEPT ![r].answers = Append(@, [op |-> op, answer |-> answer])]
                ELSE trace
    /\ UNCHANGED tracing

\* a handler that keeps its local variables in one module-level variable
\* shared by all requests (a variant the independence of requests has to
\* exclude)
ApplySharedLocals(r, ep, body, out, ret) ==
    /\ pc' = [pc EXCEPT ![r] = out.next]
    /\ endpoint' = [endpoint EXCEPT ![r] = ep]
    /\ reqBody' = [reqBody EXCEPT ![r] = IF out.next = "done" THEN NoBody ELSE body]
    /\ locals' = [q \in Reqs |-> out.locals]
    /\ issued' = [issued EXCEPT ![r] = @ \o out.call]
    /\ returned' = [returned EXCEPT ![r] = @ \o ret]
    /\ steps' = [steps EXCEPT ![r] = @ \o out.passed]
    /\ responses' = [responses EXCEPT ![r] = @ \o out.response]
    /\ posted' = [posted EXCEPT ![r] = @ \o out.post]
    /\ alive' = (alive /\ ~out.crash)
    /\ UNCHANGED functionVars

\* the handler of request r, received on route ep with body, runs to its next
\* await or to its response; ret is the external call that came back, if one
\* did. The request object is dropped with the handler once it has returned.
Apply(r, ep, body, out, ret) ==
    /\ pc' = [pc EXCEPT ![r] = out.next]
    /\ endpoint' = [endpoint EXCEPT ![r] = ep]
    /\ reqBody' = [reqBody EXCEPT ![r] = IF out.next = "done" THEN NoBody ELSE body]
    /\ locals' = [locals EXCEPT ![r] = out.locals]
    /\ issued' = [issued EXCEPT ![r] = @ \o out.call]
    /\ returned' = [returned EXCEPT ![r] = @ \o ret]
    /\ steps' = [steps EXCEPT ![r] = @ \o out.passed]
    /\ responses' = [responses EXCEPT ![r] = @ \o out.response]
    /\ posted' = [posted EXCEPT ![r] = @ \o out.post]
    /\ alive' = (alive /\ ~out.crash)
    /\ UNCHANGED functionVars

\* express dispatches a request to the handler of its route
Dispatch(ep, body) ==
    CASE ep \in {"generate", "webhook"} -> OnRequest(body)
      [] ep = "generateV1" -> OnRequestV1(body)
      [] OTHER -> OnRequestDebug

\* a request arrives (requests are numbered in the order they arrive)
Receive(r) ==
    /\ alive
    /\ pc[r] = "idle"
    /\ IF r = 1 THEN TRUE ELSE pc[r - 1] # "idle"
    /\ \E ep \in Endpoints : \E body \in RequestBodies(ep) :
          /\ Apply(r, ep, body, Dispatch(ep, body), <<>>)
          /\ Arrived(r, ep, body)

\* the category directory answers, or the request to it fails
CategoriesReturn(r) ==
    /\ alive
    /\ pc[r] = "categories"
    /\ \E answer \in CategoryAnswers :
          /\ Apply(r, endpoint[r], reqBody[r],
                   OnCategories(reqBody[r], locals[r], answer),
                   <<[op |-> "categories", ok |-> answer.ok]>>)
          /\ Answered(r, "categories", answer)

\* the LLM answers, or the request to it fails
ClaudeReturn(r) ==
    /\ alive
    /\ pc[r] = "claude"
    /\ \E answer \in ClaudeAnswers :
          /\ Apply(r, endpoint[r], reqBody[r],
                   IF endpoint[r] = "generateV1"
                   THEN OnClaudeV1(reqBody[r], locals[r], answer)
                   ELSE OnClaude(reqBody[r], locals[r], answer),
                   <<[op |-> "claude", ok |-> answer.ok]>>)
          /\ Answered(r, "claude", answer)

\* the CMS answers the record creation, or the request to it fails
StrapiReturn(r) ==
    /\ alive
    /\ pc[r] = "strapi"
    /\ \E answer \in StrapiAnswers :
          /\ Apply(r, endpoint[r], reqBody[r],
                   CASE endpoint[r] = "generateV1" -> OnStrapiV1(locals[r], answer)
                     [] endpoint[r] = "debugStrapi" -> OnStrapiDebug(answer)
                     [] OTHER -> OnStrapi(locals[r], answer),
                   <<[op |-> "strapi", ok |-> answer.ok]>>)
          /\ Answered(r, "strapi", answer)

Next ==
    \E r \in Reqs :
        \/ Receive(r)
        \/ CategoriesReturn(r)
        \/ ClaudeReturn(r)
        \/ StrapiReturn(r)

Spec == Init /\ [][Next]_vars

\* every external call eventually returns or fails (axios settles its promise)
Fairness ==
    \A r \in Reqs :
        /\ WF_vars(CategoriesReturn(r))
        /\ WF_vars(ClaudeReturn(r))
        /\ WF_vars(StrapiReturn(r))

LiveSpec == Init /\ [][Next]_vars /\ Fairness

\* the service with the history of inputs kept
SpecTraced == InitTraced /\ [][Next]_vars

----------------------------------------------------------------------------
(* Properties of the request handlers                                      *)

Generating(r) == endpoint[r] \in {"generate", "webhook"}
Responded(r, code) == Len(responses[r]) = 1 /\ responses[r][1].status = code
RespondedWith(r, message) ==
    Len(responses[r]) = 1 /\ responses[r][1].error.msg = message
Issued(r, op) == \E i \in 1..Len(issued[r]) : issued[r][i] = op
TimesIssued(r, op) == Cardinality({i \in 1..Len(issued[r]) : issued[r][i] = op})

MsgMissingFields == "Missing required fields: headline, summary, category, funnelType"
MsgNoCategories == "No matching categories found in Strapi for: "
MsgSubheadings == "At least 4 subheadings are required (subheading1-4 minimum)"
MsgClaudeFailed == "Claude API failed: "

\* C1: every record posted to the CMS, by any route, has publishedAt = null
C1_DraftOnly ==
    \A r \in Reqs : \A i \in 1..Len(posted[r]) : posted[r][i].publishedAt = JNull

\* C1 witness: records were posted by the generating route and by the debug
\* route
C1_Witness ==
    \E r1, r2 \in Reqs :
        /\ endpoint[r1] \in {"generate", "webhook", "generateV1"}
        /\ endpoint[r2] = "debugStrapi"
        /\ posted[r1] # <<>>
        /\ posted[r2] # <<>>

\* the order of the steps before a CMS write on POST /api/generate and POST
\* /webhook: the category resolution gave at least one id, at least 4
\* non-blank subheadings were counted, the LLM call came back successfully,
\* parseClaudeResponse and splitContentBySubheadings returned; a request
\* answered with "no matching categories" or "Claude API failed" posts nothing
C2_OrderOfSteps ==
    \A r \in Reqs :
        /\ (Generating(r) /\ posted[r] # <<>>) =>
              /\ Len(posted[r]) = 1
              /\ Len(posted[r][1].categories) >= 1
              /\ pc[r] = "strapi" => locals[r].validCount >= 4
              /\ Len(returned[r]) >= 2
              /\ returned[r][1] = [op |-> "categories", ok |-> TRUE]
              /\ returned[r][2] = [op |-> "claude", ok |-> TRUE]
              /\ SubSeq(issued[r], 1, 3) = <<"categories", "claude", "strapi">>
              /\ SubSeq(steps[r], 1, 6) =
                    <<"validated", "resolved", "subheadings", "generated",
                      "normalized", "partitioned">>
        /\ (Generating(r) /\ (RespondedWith(r, MsgNoCategories)
                                \/ RespondedWith(r, MsgClaudeFailed))) =>
              posted[r] = <<>>

\* C2: on POST /api/generate and POST /webhook a record is posted only after,
\* in this order, the category resolution gave at least one id, at least 4
\* non-blank subheadings were counted, the LLM call came back successfully
\* and its text was normalized (into a record whose two fields are strings)
\* and partitioned; a request whose categories match nothing, whose LLM call
\* fails or whose LLM text cannot be normalized posts nothing
C2_WriteOnlyAfterPipeline ==
    /\ C2_OrderOfSteps
    /\ \A r \in Reqs :
          (Generating(r) /\ posted[r] # <<>>) =>
              /\ posted[r][1].body.t = "string"
              /\ posted[r][1].bodyImageText.t = "string"
              /\ posted[r][1].linkedInSummary.t = "string"

\* C3 as claimed: a request answered with a validation error (status 400) has
\* attempted no external call at all
C3_NoExternalCallOnValidationError ==
    \A r \in Reqs : (Generating(r) /\ Responded(r, 400)) => issued[r] = <<>>

\* C3 as amended: each validation failure is answered with status 400, and
\* such a request has attempted neither the LLM call nor the CMS write; the
\* category directory has been fetched, once, exactly when the failure is
\* "no matching categories" or "fewer than 4 subheadings"
C3_ValidationErrorBeforeGeneration ==
    \A r \in Reqs :
        /\ (Generating(r) /\ (RespondedWith(r, MsgMissingFields)
                                \/ RespondedWith(r, MsgNoCategories)
                                \/ RespondedWith(r, MsgSubheadings))) =>
              Responded(r, 400)
        /\ (Generating(r) /\ Responded(r, 400)) =>
              /\ ~Issued(r, "claude")
              /\ ~Issued(r, "strapi")
              /\ posted[r] = <<>>
              /\ RespondedWith(r, MsgMissingFields) => issued[r] = <<>>
              /\ ~RespondedWith(r, MsgMissingFields) => issued[r] = <<"categories">>

\* C3 witness: a request was answered 400 for want of a matching category,
\* another for want of subheadings, each after the directory was fetched
C3_Witness ==
    \E r1, r2 \in Reqs :
        /\ Generating(r1) /\ Responded(r1, 400) /\ RespondedWith(r1, MsgNoCategories)
        /\ issued[r1] = <<"categories">>
        /\ Generating(r2) /\ Responded(r2, 400) /\ RespondedWith(r2, MsgSubheadings)
        /\ issued[r2] = <<"categories">>

\* C4: within one request each of the three external calls is issued at most
\* once, and after a call failed no further call is issued
C4_NoRetry ==
    \A r \in Reqs :
        /\ \A op \in {"categories", "claude", "strapi"} : TimesIssued(r, op) <= 1
        /\ \A i \in 1..Len(returned[r]) :
              ~returned[r][i].ok => (i = Len(returned[r]) /\ Len(issued[r]) = i)

\* C4 witness: the LLM call of a request failed and the request ended with
\* the two calls it had issued
C4_Witness ==
    \E r \in Reqs :
        /\ Generating(r)
        /\ pc[r] = "done"
        /\ issued[r] = <<"categories", "claude">>
        /\ returned[r][2] = [op |-> "claude", ok |-> FALSE]

\* C5: every request gets exactly one response (never two, none missing once
\* the handler has returned, and one eventually, the external calls being
\* answered), and no failure ends the process
C5_ExactlyOneResponse ==
    /\ [](\A r \in Reqs :
            /\ Len(responses[r]) <= 1
            /\ pc[r] = "done" => Len(responses[r]) = 1
            /\ alive)
    /\ \A r \in Reqs :
          (pc[r] # "idle") ~> (pc[r] = "done" /\ Len(responses[r]) = 1)

\* C5 witness: a request was answered 500 after its CMS write failed while
\* another request is still in flight
C5_Witness ==
    \E r1, r2 \in Reqs :
        /\ Generating(r1)
        /\ pc[r1] = "done"
        /\ Responded(r1, 500)
        /\ Len(returned[r1]) = 3
        /\ ~returned[r1][3].ok
        /\ pc[r2] \in {"categories", "claude", "strapi"}
        /\ alive

----------------------------------------------------------------------------
(* parseClaudeResponse and splitContentBySubheadings called on their own   *)

\* the greatest number of pieces a generated string value is made of
MaxPieces == 2
\* the greatest number of spaces after a field-name colon
MaxColonWs == 1
\* the greatest number of lines of a generated article body
MaxLines == 2

RECURSIVE Concat(_)
Concat(seqs) == IF seqs = <<>> THEN <<>> ELSE Head(seqs) \o Concat(Tail(seqs))

RECURSIVE JoinLines(_)
JoinLines(lines) ==
    IF lines = <<>> THEN <<>>
    ELSE IF Len(lines) = 1 THEN Head(lines)
    ELSE Head(lines) \o <<NL>> \o JoinLines(Tail(lines))

\* all sequences of at most n elements of set
RECURSIVE SeqsUpTo(_, _)
SeqsUpTo(set, n) ==
    IF n = 0 THEN {<<>>}
    ELSE LET shorter == SeqsUpTo(set, n - 1)
         IN  shorter \cup {Append(q, x) : q \in shorter, x \in set}

\* what the text of a string value is made of: a letter, a literal paragraph
\* break, an escaped newline, a code-fence marker, an escaped quote followed
\* by a comma
ValuePieces == {<<"a">>, <<NL, NL>>, <<BSL, "n">>, Fence, <<BSL, Q, ",">>}
BodyTexts == {Concat(q) : q \in SeqsUpTo(ValuePieces, MaxPieces)}
SnippetTexts == {<<"c">>, <<"c", NL, "d">>}

Spaces(n) == [k \in 1..n |-> " "]

\* the two-field object { "articleBody": "...", "linkedinSnippet": "..." }
PairText(ws1, body, ws2, snippet) ==
    <<"{">> \o ReArticleBody \o Spaces(ws1) \o <<Q>> \o body \o <<Q, ",", " ">>
        \o ReLinkedinSnippet \o Spaces(ws2) \o <<Q>> \o snippet \o <<Q, "}">>

TextNullBody ==
    <<"{", Q, "a", "r", "t", "i", "c", "l", "e", "B", "o", "d", "y", Q, ":",
      " ", "n", "u", "l", "l", ",", " ", Q, "l", "i", "n", "k", "e", "d",
      "i", "n", "S", "n", "i", "p", "p", "e", "t", Q, ":", " ", Q, "c", Q,
      "}">>
TextArray == <<"[", Q, "a", Q, "]">>

OtherTexts == {TextNumber, TextNull, TextProse, TextPartial, TextNullBody, TextArray}

Wraps == {"none", "fence", "fenceJson", "prose"}

\* the text the LLM puts around the object
Wrapped(wrap, inner) ==
    CASE wrap = "fence" -> Fence \o <<NL>> \o inner \o <<NL>> \o Fence
      [] wrap = "fenceJson" -> FenceJson \o <<NL>> \o inner \o <<NL>> \o Fence
      [] wrap = "prose" -> <<"o", "k", ":", " ">> \o inner \o <<" ", "o", "k">>
      [] OTHER -> inner

Origins ==
    {[wrap |-> w, kind |-> "pair", inner |-> PairText(a, b, c, d), body |-> b,
      snippet |-> d, ws1 |-> a, ws2 |-> c] :
        w \in Wraps, a \in 0..MaxColonWs, b \in BodyTexts, c \in 0..MaxColonWs,
        d \in SnippetTexts}
    \cup {[wrap |-> w, kind |-> "other", inner |-> t, body |-> <<>>, snippet |-> <<>>,
           ws1 |-> 0, ws2 |-> 0] : w \in Wraps, t \in OtherTexts}

InitParse ==
    /\ origin \in Origins
    /\ rawContent = Wrapped(origin.wrap, origin.inner)
    /\ parsed = ParseNotCalled
    /\ content = <<>>
    /\ subheadings = <<>>
    /\ split = SplitNotCalled
    /\ ResolveIdle
    /\ HandlersIdle

ParseCall ==
    /\ parsed = ParseNotCalled
    /\ parsed' = parseClaudeResponse(rawContent)
    /\ UNCHANGED <<rawContent, origin, content, subheadings, split>>
    /\ UNCHANGED resolveVars
    /\ UNCHANGED handlerVars

NextParse == ParseCall

SpecParse == InitParse /\ [][NextParse]_vars

\* the lines an article body is made of
BodyLines ==
    {<<"#", "#", " ", "B">>, <<"#", "#", " ", "b">>, <<"#", "#", "#", " ", "B">>,
     <<"#", "#", " ", "B", "c">>, <<"#", "#", " ", "B", ".">>, <<"#", "#", " ", "A">>,
     <<"x", " ", "y">>}
Contents == {JoinLines(q) : q \in SeqsUpTo(BodyLines, MaxLines)}

\* the subheading meant to be the third non-blank one
Thirds == {<<"B">>, <<"B", "c">>, <<"B", ".">>, <<"(", "B">>}

\* the six subheading fields: filled from the front, with blank fields in
\* between, or with two non-blank fields only
SubheadingLists ==
    {<<Str(<<"A">>), Str(<<"C">>), Str(t), Str(<<"D">>), Undefined, Undefined>> :
        t \in Thirds}
    \cup {<<Str(<<"A">>), Str(<<>>), Str(<<"C">>), Str(<<" ">>), Str(t), Str(<<"D">>)>> :
        t \in Thirds}
    \cup {<<Str(<<"A">>), Str(t), Undefined, Undefined, Undefined, Undefined>> :
        t \in Thirds}

InitSplit ==
    /\ content \in Contents
    /\ subheadings \in SubheadingLists
    /\ split = SplitNotCalled
    /\ rawContent = <<>>
    /\ parsed = ParseNotCalled
    /\ origin = NoOrigin
    /\ ResolveIdle
    /\ HandlersIdle

SplitCall ==
    /\ ~split.called
    /\ split' = splitContentBySubheadings(JStr(content), subheadings)
    /\ UNCHANGED <<content, subheadings, rawContent, parsed, origin>>
    /\ UNCHANGED resolveVars
    /\ UNCHANGED handlerVars

NextSplit == SplitCall

SpecSplit == InitSplit /\ [][NextSplit]_vars

----------------------------------------------------------------------------
(* Properties of parseClaudeResponse and splitContentBySubheadings         *)

ParseCalled == parsed.step # -1
ParseReturned == ParseCalled /\ ~parsed.threw

Contains(text, pat) == IndexOf(text, pat) # -1

\* C6: whenever parseClaudeResponse returns, the record it returns has both
\* articleBody and linkedinSnippet present as strings; in every other case
\* it fails with an error instead of returning.
C6_BothFieldsOnReturn ==
    ParseReturned =>
        /\ parsed.val.t = "object"
        /\ Get(parsed.val, KeyArticleBody).t = "string"
        /\ Get(parsed.val, KeyLinkedinSnippet).t = "string"

\* C7: for LLM text that is a well-formed JSON object T wrapped in code-fence
\* markers, parseClaudeResponse returns exactly the strict parse of T: only
\* the surrounding markers are removed.
C7_FencedObjectParsesAsItself ==
    (/\ ParseCalled
     /\ origin.wrap \in {"fence", "fenceJson"}
     /\ JSONParse(origin.inner).ok
     /\ JSONParse(origin.inner).val.t = "object")
        => /\ ~parsed.threw
           /\ parsed.val = JSONParse(origin.inner).val

\* the text is the two-field shape with a literal newline in a value, which
\* strict parsing rejects
LiteralNewlinePair ==
    /\ origin.kind = "pair"
    /\ origin.wrap = "none"
    /\ Contains(origin.body, <<NL>>) \/ Contains(origin.snippet, <<NL>>)
    /\ ~Contains(origin.body, Fence)
    /\ ~JSONParse(origin.inner).ok

\* C8: for text of the two-field shape whose values hold literal newlines,
\* whatever whitespace follows the colons, parseClaudeResponse returns
\* exactly the two values; the field-wise step returns only when it found
\* both field markers.
C8_FieldWiseExtractionExact ==
    (ParseCalled /\ LiteralNewlinePair) =>
        /\ ~parsed.threw
        /\ Get(parsed.val, KeyArticleBody) = JStr(origin.body)
        /\ Get(parsed.val, KeyLinkedinSnippet) = JStr(origin.snippet)
        /\ parsed.step = 3 =>
              /\ Contains(rawContent, MarkerArticleBody)
              /\ Contains(rawContent, MarkerLinkedinSnippet)

SplitReturnedNormally == split.called /\ ~split.threw
ThreeValid == Len(FilterValid(subheadings)) >= 3

\* C9: with at least three non-blank subheadings, whenever
\* splitContentBySubheadings returns, firstPart followed by secondPart is
\* the body, on the heading path and on the midpoint path alike.
C9_PartsConcatenateToBody ==
    (SplitReturnedNormally /\ ThreeValid) =>
        split.firstPart \o split.secondPart = content

\* the 0-based start of the line at 1-based position k of text holding
\* exactly line, compared without regard to case
IsLineAt(text, line, k) ==
    /\ k = 1 \/ text[k - 1] = NL
    /\ k + Len(line) - 1 <= Len(text)
    /\ ToLowerCase(SubSeq(text, k, k + Len(line) - 1)) = ToLowerCase(line)
    /\ k + Len(line) - 1 = Len(text) \/ text[k + Len(line)] = NL

\* the index of the first heading line "## sub" of text, -1 if there is none
HeadingLineStart(text, sub) ==
    LET line == <<"#", "#", " ">> \o sub
        at == {k \in 1..Len(text) : IsLineAt(text, line, k)}
    IN  IF at = {} THEN -1 ELSE (CHOOSE k \in at : \A j \in at : k <= j) - 1

\* the body is cut at a heading, after a non-empty first part
C9_Witness ==
    /\ SplitReturnedNormally
    /\ ThreeValid
    /\ HeadingLineStart(content, FilterValid(subheadings)[3].s) > 0
    /\ Len(split.firstPart) = HeadingLineStart(content, FilterValid(subheadings)[3].s)
    /\ split.firstPart # <<>>
    /\ split.secondPart # <<>>
    /\ Len(split.firstPart) # Len(content) \div 2

\* C10: the split index is the start of the first heading line made of
\* "## " and the third non-blank subheading, with exactly that text compared
\* case-insensitively; with no such line it is floor(length / 2).
C10_SplitIndex ==
    (SplitReturnedNormally /\ ThreeValid) =>
        LET heading == HeadingLineStart(content, FilterValid(subheadings)[3].s)
        IN  Len(split.firstPart) =
                IF heading # -1 THEN heading ELSE Len(content) \div 2

----------------------------------------------------------------------------
(* parseCategories and findCategoryIds called on their own                 *)

\* the greatest number of category names in a request
MaxNames == 2

\* names a request asks for: written as in the directory, in another case,
\* cut short, lengthened, unknown
NamePool ==
    {<<"M", "a", "r", "k", "e", "t", "i", "n", "g">>,
     <<"T", "e", "c", "h">>,
     <<"T", "E", "C", "H">>,
     <<"T", "e", "c">>,
     <<"T", "e", "c", "h", "n", "o">>,
     <<"O", "t", "h", "e", "r">>}

\* the names joined as a spreadsheet cell holds them
RECURSIVE JoinNames(_)
JoinNames(names) ==
    IF names = <<>> THEN <<>>
    ELSE IF Len(names) = 1 THEN Head(names)
    ELSE Head(names) \o <<",", " ">> \o JoinNames(Tail(names))

NameLists == SeqsUpTo(NamePool, MaxNames)

\* the category field: a comma-separated string or an array of strings
CategoryInputs(names) ==
    {JStr(JoinNames(names)),
     JArr([k \in 1..Len(names) |-> [k |-> <<>>, v |-> JStr(names[k])]])}

\* a directory that lists the same name twice, in two spellings
DirectoryTwice ==
    <<[id |-> 4, name |-> <<"t", "e", "c", "h">>]>> \o Directory

Directories == {<<>>, Directory, DirectoryTwice}

InitResolve ==
    /\ resNames \in NameLists
    /\ resInput \in CategoryInputs(resNames)
    /\ resDirectory \in Directories
    /\ resolved = ResolveNotCalled
    /\ ParseSplitIdle
    /\ HandlersIdle

\* findCategoryIds(parseCategories(category)) with the directory as listed
ResolveOutcome(found) == [called |-> TRUE, threw |-> found.threw, ids |-> found.ids]

ResolveCall ==
    /\ ~resolved.called
    /\ resolved' =
          ResolveOutcome(findCategoryIds(parseCategories(resInput).list, resDirectory))
    /\ UNCHANGED <<resInput, resDirectory, resNames>>
    /\ UNCHANGED <<rawContent, parsed, content, subheadings, split, origin>>
    /\ UNCHANGED handlerVars

NextResolve == ResolveCall

SpecResolve == InitResolve /\ [][NextResolve]_vars

----------------------------------------------------------------------------
(* Properties of the category resolution                                   *)

\* two names are the same when case is ignored
SameIgnoringCase(a, b) ==
    /\ Len(a) = Len(b)
    /\ \A k \in 1..Len(a) : Lower(a[k]) = Lower(b[k])

\* the entries of the directory whose name is the requested name
EntriesNamed(name) ==
    {k \in 1..Len(resDirectory) : SameIgnoringCase(resDirectory[k].name, name)}

ResolveReturned == resolved.called /\ ~resolved.threw

\* C11 as claimed: findCategoryIds returns exactly the ids of the directory
\* entries whose name equals a requested name when case is ignored; unmatched
\* names are skipped, names that are part of an entry name or contain one
\* resolve to nothing
C11_IdsOfAllEntriesNamed ==
    ResolveReturned =>
        {resolved.ids[i] : i \in 1..Len(resolved.ids)} =
            {resDirectory[k].id :
                k \in {j \in 1..Len(resDirectory) :
                          \E n \in 1..Len(resNames) : j \in EntriesNamed(resNames[n])}}

HasEntry(name) == EntriesNamed(name) # {}

\* C11 as amended: findCategoryIds returns, for each requested name that some
\* directory entry bears when case is ignored, in the order of the request,
\* the id of the first such entry; a name no entry bears is skipped, and a
\* name that is only part of an entry name or contains one is such a name
C11_IdOfFirstEntryNamed ==
    ResolveReturned =>
        LET matched == SelectSeq(resNames, HasEntry)
        IN  /\ Len(resolved.ids) = Len(matched)
            /\ \A i \in 1..Len(matched) :
                  \E k \in EntriesNamed(matched[i]) :
                      /\ resolved.ids[i] = resDirectory[k].id
                      /\ \A j \in EntriesNamed(matched[i]) : k <= j

\* C11 witness: "Tec" is skipped and "Marketing" resolved to the entry named
\* "marketing"
C11_Witness ==
    /\ ResolveReturned
    /\ resDirectory = Directory
    /\ Len(resNames) = 2
    /\ ~HasEntry(resNames[1])
    /\ \E k \in 1..Len(resDirectory) : Contains(resDirectory[k].name, resNames[1])
    /\ HasEntry(resNames[2])
    /\ \A k \in 1..Len(resDirectory) : resDirectory[k].name # resNames[2]
    /\ resolved.ids = <<1>>

----------------------------------------------------------------------------
(* Properties of the handlers that speak of the inputs of a request        *)

\* the answers request r got from its calls of op, in order
AnswersOf(r, op) ==
    LET OfOp(e) == e.op = op
    IN  SelectSeq(trace[r].answers, OfOp)

\* the LLM call of request r succeeded and answered with text
GotText(r, text) ==
    /\ AnswersOf(r, "claude") # <<>>
    /\ AnswersOf(r, "claude")[1].answer.ok
    /\ AnswersOf(r, "claude")[1].answer.text = text

\* result is a record of two strings, articleBody and linkedinSnippet
IsGeneratedContent(result) ==
    /\ ~result.threw
    /\ result.val.t = "object"
    /\ Get(result.val, KeyArticleBody).t = "string"
    /\ Get(result.val, KeyLinkedinSnippet).t = "string"

\* the texts of ClaudeTexts no step of parseClaudeResponse turns into a
\* record of two strings
MalformedTexts == {t \in ClaudeTexts : ~IsGeneratedContent(parseClaudeResponse(t))}

\* the caller-facing errors of a request whose LLM call failed
UpstreamErrors ==
    {OnClaude(BodyOk, NoLocals, a).response[1].error : a \in {b \in ClaudeAnswers : ~b.ok}}

\* C12: when the LLM call succeeds and no step of the fallback chain turns
\* its text into a record of two strings, the request fails: its one
\* response has a 5xx status and carries an error that is not the error of
\* a failed LLM call.
C12_MalformedTextFailsApart ==
    \A r \in Reqs : \A t \in MalformedTexts :
        (Generating(r) /\ pc[r] = "done" /\ GotText(r, t)) =>
            /\ Len(responses[r]) = 1
            /\ responses[r][1].status >= 500
            /\ ~responses[r][1].success
            /\ responses[r][1].error \notin UpstreamErrors

\* the piece of the handler of route ep that runs when its call of op comes
\* back with answer
Resume(ep, body, loc, op, answer) ==
    CASE op = "categories" -> OnCategories(body, loc, answer)
      [] op = "claude" /\ ep = "generateV1" -> OnClaudeV1(body, loc, answer)
      [] op = "claude" /\ ep # "generateV1" -> OnClaude(body, loc, answer)
      [] op = "strapi" /\ ep = "generateV1" -> OnStrapiV1(loc, answer)
      [] op = "strapi" /\ ep = "debugStrapi" -> OnStrapiDebug(answer)
      [] OTHER -> OnStrapi(loc, answer)

\* what a request has done so far, given the outcome of its latest piece
Extended(before, out) ==
    [next |-> out.next, locals |-> out.locals,
     responses |-> before.responses \o out.response,
     posted |-> before.posted \o out.post,
     issued |-> before.issued \o out.call]

NothingDone == [next |-> "idle", locals |-> NoLocals, responses |-> <<>>,
                posted |-> <<>>, issued |-> <<>>]

\* the request received on route ep with body runs alone, with no other
\* request in the process, and its external calls come back with the first k
\* of answers
RECURSIVE Alone(_, _, _, _)
Alone(ep, body, answers, k) ==
    IF k = 0
    THEN Extended(NothingDone, Dispatch(ep, body))
    ELSE LET before == Alone(ep, body, answers, k - 1)
         IN  Extended(before,
                      Resume(ep, body, before.locals, answers[k].op, answers[k].answer))

\* request r as it stands is what it would be had it run alone
AsAlone(r, alone) ==
    /\ pc[r] = alone.next
    /\ responses[r] = alone.responses
    /\ posted[r] = alone.posted
    /\ issued[r] = alone.issued

Tokens(text) ==
    Cardinality({i \in 1..Len(text) :
                    /\ ~IsWs(text[i])
                    /\ (i = 1 \/ IsWs(text[i - 1]))})

\* request r was answered with success after posting one record to the CMS
SucceededWithPost(r) ==
    /\ Generating(r)
    /\ Len(responses[r]) = 1
    /\ responses[r][1].success
    /\ Len(posted[r]) = 1

\* C14: in every success response of POST /api/generate and POST /webhook,
\* bodyWordCount and bodyImageTextWordCount are the numbers of non-empty
\* whitespace-delimited tokens of the first part and of the second part as
\* they were written to the CMS.
C14_WordCountsAreTokenCounts ==
    \A r \in Reqs :
        SucceededWithPost(r) =>
            /\ responses[r][1].data.bodyWordCount = Tokens(posted[r][1].body.s)
            /\ responses[r][1].data.bodyImageTextWordCount
                   = Tokens(posted[r][1].bodyImageText.s)

\* the least word count CONTENT_PROMPTS asks for, over the funnel types
LeastTargetWordCount == 800

\* the request carries no subheading that is not blank
NoSubheadingGuidance(body) == FilterValid(body.subheadings) = <<>>

\* the answer e of a collaborator is one the pipeline can go on with, and
\* the article body of the LLM is at or under the target word count
Favourable(e) ==
    /\ e.answer.ok
    /\ e.op = "categories" => e.answer.data = Directory
    /\ e.op = "strapi" => e.answer.id.t = "number"
    /\ e.op = "claude" =>
          /\ IsGeneratedContent(parseClaudeResponse(e.answer.text))
          /\ Tokens(Get(parseClaudeResponse(e.answer.text).val, KeyArticleBody).s)
                <= LeastTargetWordCount

\* the record request r posted holds the article body of generated, trimmed,
\* as its first part and nothing as its second part
PostedWhole(r, generated) ==
    /\ posted[r][1].body.t = "string"
    /\ posted[r][1].body.s = Trim(Get(generated.val, KeyArticleBody).s)
    /\ posted[r][1].bodyImageText.t = "string"
    /\ posted[r][1].bodyImageText.s = <<>>

\* C15: a request of POST /api/generate or POST /webhook that carries no
\* subheading guidance, whose required fields are present and whose
\* collaborators all answer well with an article body at or under the
\* target word count, ends with one CMS write whose first part is the
\* trimmed body and whose second part is empty.
C15_WordCountPartitionUnderTarget ==
    \A r \in Reqs :
        (/\ Generating(r)
         /\ pc[r] = "done"
         /\ HasRequiredFields(trace[r].body)
         /\ NoSubheadingGuidance(trace[r].body)
         /\ \A i \in 1..Len(trace[r].answers) : Favourable(trace[r].answers[i])) =>
            IF Len(posted[r]) # 1 \/ AnswersOf(r, "claude") = <<>>
            THEN FALSE
            ELSE PostedWhole(r, parseClaudeResponse(AnswersOf(r, "claude")[1].answer.text))

\* a directory the CMS lists that holds no category any request names
UnmatchedDirectory ==
    <<[id |-> 3, name |-> <<"T", "e", "c", "h", "n", "o", "l", "o", "g", "y">>]>>

\* the fetch of the category directory failed for request r
FetchFailed(r) ==
    /\ AnswersOf(r, "categories") # <<>>
    /\ ~AnswersOf(r, "categories")[1].answer.ok

\* what the caller of a request with body is answered when the directory
\* arrives and is directory
AnsweredOnDirectory(body, directory) ==
    OnCategories(body, OnRequest(body).locals, [ok |-> TRUE, data |-> directory]).response

\* C16: a request of POST /api/generate or POST /webhook whose fetch of the
\* category directory failed has ended with one response, the 400 'No
\* matching categories found', has issued no LLM call and no CMS write, and
\* its response is the one it gets from a directory that arrives and holds
\* no category it names.
C16_FetchFailureReadsAsNoMatch ==
    \A r \in Reqs :
        (Generating(r) /\ FetchFailed(r)) =>
            /\ pc[r] = "done"
            /\ Len(responses[r]) = 1
            /\ responses[r][1].status = 400
            /\ responses[r][1].error.msg = MsgNoCategories
            /\ issued[r] = <<"categories">>
            /\ posted[r] = <<>>
            /\ responses[r] = AnsweredOnDirectory(trace[r].body, UnmatchedDirectory)
            /\ responses[r] = AnsweredOnDirectory(trace[r].body, <<>>)

\* the fetch failed for a request that names a category the directory holds,
\* after another request with the same body got the directory and went on
C16_Witness ==
    /\ Generating(1) /\ Generating(2)
    /\ trace[1].body = BodyOk /\ trace[2].body = BodyOk
    /\ Issued(1, "claude")
    /\ FetchFailed(2)
    /\ pc[2] = "done"
    /\ responses[2][1].status = 400

====
